---- MODULE Spec2Model ----
(***************************************************************************)
(* Model of koishi-plugin-phimg (src/src/index.ts): the per-group          *)
(* configuration store (getGroupConfig / updateGroupConfig over the        *)
(* phimg_config table), the command handler with its ordered option        *)
(* dispatch, the tag composition, the board query and the selection of     *)
(* one image.  Several invocations of the handler run concurrently; each   *)
(* await of the handler is a step boundary.                                *)
(*                                                                         *)
(* Strings are sequences of one-character strings, so that split, trim,    *)
(* join and endsWith are computed, not assumed.                            *)
(***************************************************************************)
EXTENDS Integers, Sequences, FiniteSets, TLC

\* ------------------------------------------------------------------ bounds
\* Invocations started in one behaviour.
MaxInvocations == 3
\* Largest authority level a caller carries.
MaxAuthority == 2
\* Longest image list the board answers with.
MaxImages == 2
\* Options supplied together in one invocation.
MaxOpts == 2
\* Longest raw tag text of the exhaustive composition runs.
MaxLen == 3

\* Concurrent handler invocations (slots).
Procs == {1, 2}

\* --------------------------------------------------------------- strings
SPACE == " "
COMMA == ","
Chars == {"a", "A", "b", COMMA, SPACE}

RECURSIVE Split(_)
\* String.prototype.split(','): the pieces between commas, empty ones kept.
Split(s) ==
    IF \A i \in 1..Len(s) : s[i] # COMMA
    THEN <<s>>
    ELSE LET i == CHOOSE k \in 1..Len(s) :
                    s[k] = COMMA /\ \A j \in 1..(k-1) : s[j] # COMMA
         IN <<SubSeq(s, 1, i-1)>> \o Split(SubSeq(s, i+1, Len(s)))

RECURSIVE TrimStart(_)
TrimStart(s) ==
    IF s # <<>> /\ Head(s) = SPACE THEN TrimStart(Tail(s)) ELSE s

RECURSIVE TrimEnd(_)
TrimEnd(s) ==
    IF s # <<>> /\ s[Len(s)] = SPACE THEN TrimEnd(SubSeq(s, 1, Len(s)-1)) ELSE s

\* String.prototype.trim()
Trim(s) == TrimEnd(TrimStart(s))

NonEmpty(t) == t # <<>>

\* text.split(',').map(t => t.trim()).filter(t => t)
ParseTags(text) ==
    LET pieces == Split(text)
        trimmed == [i \in 1..Len(pieces) |-> Trim(pieces[i])]
    IN SelectSeq(trimmed, NonEmpty)

RECURSIVE DedupFrom(_, _)
DedupFrom(acc, xs) ==
    IF xs = <<>> THEN acc
    ELSE IF \E i \in 1..Len(acc) : acc[i] = Head(xs)
         THEN DedupFrom(acc, Tail(xs))
         ELSE DedupFrom(Append(acc, Head(xs)), Tail(xs))

\* [...new Set(xs)]: insertion order, a value already in the set is skipped.
Dedup(xs) == DedupFrom(<<>>, xs)

RECURSIVE Join(_, _)
\* Array.prototype.join(sep)
Join(xs, sep) ==
    IF xs = <<>> THEN <<>>
    ELSE IF Len(xs) = 1 THEN xs[1]
    ELSE xs[1] \o sep \o Join(Tail(xs), sep)

\* '无' (none)
NoneText == <<"none">>
\* list.join(', ') || NoneText
JoinOrNone(xs) ==
    LET s == Join(xs, <<COMMA, SPACE>>) IN IF s = <<>> THEN NoneText ELSE s

\* String.prototype.endsWith
EndsWith(s, suffix) ==
    /\ Len(s) >= Len(suffix)
    /\ SubSeq(s, Len(s) - Len(suffix) + 1, Len(s)) = suffix

Range(xs) == {xs[i] : i \in 1..Len(xs)}

\* ------------------------------------------------------- inputs and config
Tag(c) == <<c>>
\* Raw tag texts a caller types: empty, one tag, and a list with padding,
\* an empty piece, a repeated tag and a tag differing only in case.
TextNone == <<>>
TextA == <<"a">>
TextMixed == <<SPACE, "A", SPACE, COMMA, "b", COMMA, COMMA, "A">>
OptTexts == {TextNone, TextA, TextMixed}
ArgTexts == {TextNone, TextMixed}

Guilds == {"g1"}
\* session.guildId of a private conversation
NoGuild == ""

FlagNames == {"tags", "on", "off", "onglobal", "offglobal", "status"}
TextNames == {"add", "rm"}
\* options: the flags supplied, and the texts of the --add / --rm supplied
OptionSets ==
    {o \in [flags : SUBSET FlagNames,
            text : UNION {[D -> OptTexts] : D \in SUBSET TextNames}] :
        Cardinality(o.flags) + Cardinality(DOMAIN o.text) <= MaxOpts}

\* session.user: <<>> when no authority is known, else <<authority>>
Users == {<<>>} \cup {<<n>> : n \in 0..MaxAuthority}

\* The arguments of one invocation, for the runs of one invocation at a time.
Requests == [options : OptionSets, tags : ArgTexts, user : Users]

\* The arguments of the invocations that run concurrently: one option or a
\* search, by a member or an administrator.
ConcurrentRequests ==
    {r \in [options : OptionSets, tags : {TextNone, TextMixed},
            user : {<<1>>, <<2>>}] :
        /\ Cardinality(r.options.flags) + Cardinality(DOMAIN r.options.text) <= 1
        /\ \A f \in DOMAIN r.options.text : r.options.text[f] = TextA
        /\ r.tags # TextNone =>
              r.options.flags = {} /\ DOMAIN r.options.text = {}}

\* Config: the Schema's defaults (no apiKey, defaultTags ['safe'], both flags
\* true), and two configurations with an apiKey and one flag off.
Configs ==
    {[apiKey |-> <<>>, defaultTags |-> <<Tag("a")>>,
      enabledByDefault |-> TRUE, useGlobalTagsByDefault |-> TRUE],
     [apiKey |-> <<"k">>, defaultTags |-> <<Tag("a")>>,
      enabledByDefault |-> FALSE, useGlobalTagsByDefault |-> TRUE],
     [apiKey |-> <<"k">>, defaultTags |-> <<Tag("a")>>,
      enabledByDefault |-> TRUE, useGlobalTagsByDefault |-> FALSE]}

\* ------------------------------------------------------------ the board
Webm == <<".", "w", "e", "b", "m">>
Png == <<".", "p", "n", "g">>
Image1 ==
    [id |-> 1, score |-> 5, tags |-> <<Tag("x")>>,
     representations |-> [full |-> <<"f">> \o Webm,
                          medium |-> <<"m", "1">> \o Webm,
                          large |-> <<"l", "1">> \o Png]]
Image2 ==
    [id |-> 2, score |-> 3, tags |-> <<Tag("y")>>,
     representations |-> [full |-> <<"f">> \o Png,
                          medium |-> <<"m", "2">> \o Png,
                          large |-> <<"l", "2">> \o Png]]
\* '.webm' inside the full name, not at its end; same score as Image1
Image3 ==
    [id |-> 3, score |-> 5, tags |-> <<Tag("a")>>,
     representations |-> [full |-> <<"f">> \o Webm \o Png,
                          medium |-> <<"m", "3">> \o Webm,
                          large |-> <<"l", "3">> \o Png]]
ImagePool == {Image1, Image2, Image3}
\* What the board lists for sf=score, sd=desc: distinct images, best first.
ImageLists ==
    {l \in UNION {[1..n -> ImagePool] : n \in 1..MaxImages} :
        \A i, j \in 1..Len(l) :
            i < j => l[i].id # l[j].id /\ l[i].score >= l[j].score}

\* '未找到匹配的图片' (no matching image found)
NoResultsMsg == <<"no matching image found">>
Msg404 == <<"Request failed with status code 404">>
Msg500 == <<"Request failed with status code 500">>
MsgTimeout == <<"timeout of 30000ms exceeded">>
\* What axios.get ends with: a 2xx body (no match, or one of lists), an HTTP
\* error status, or no response at all.
BoardReplies(lists) ==
    {[kind |-> "ok", status |-> 200, total |-> 0, images |-> <<>>,
      message |-> <<>>]}
    \cup {[kind |-> "ok", status |-> 200, total |-> Len(l), images |-> l,
           message |-> <<>>] : l \in lists}
    \cup {[kind |-> "http", status |-> 404, total |-> 0, images |-> <<>>,
           message |-> Msg404],
          [kind |-> "http", status |-> 500, total |-> 0, images |-> <<>>,
           message |-> Msg500],
          [kind |-> "none", status |-> 0, total |-> 0, images |-> <<>>,
           message |-> MsgTimeout]}

PerPage == 50
TimeoutMs == 30000
\* the authority an administrative option needs
AdminAuthority == 2

\* ------------------------------------------------------------- state
VARIABLES
    config,       \* the plugin's Config, fixed when apply() runs
    db,           \* rows of table phimg_config
    nextId,       \* the table's auto-increment counter
    pc,           \* where each invocation of the handler stands
    groupId,      \* its session.guildId
    groupConfig,  \* its local groupConfig (enabled, useGlobalTags, customTags)
    allTags,      \* its local allTags
    http,         \* the query parameters of the GET it has issued
    sent,         \* how many GETs it has issued
    images,       \* its local images (what searchImages returned)
    selected,     \* its local selected (selectRandomImage's result)
    resp,         \* what it returned to the host
    args,         \* the options, tags and user it was called with
    lastSet,      \* history: the latest add (its group, its text, the list
                  \* stored before it) while no other update followed it
                  \* but the rm of the same text (undone)
    invocations,  \* invocations started so far
    board,        \* what its axios.get ended with (status, total, message)
    overtaken     \* history: it ran on from a configuration it had read as
                  \* enabled while the stored row was no longer enabled

vars == <<config, db, nextId, pc, groupId, groupConfig, allTags, http, sent,
          images, selected, resp, args, lastSet, invocations, board,
          overtaken>>

\* --------------------------------------------------------- the table
\* unique: ['groupId'] refuses a second row of a group.
\* A store that does not enforce the declared uniqueness.
UniqueOff(rows, g) == FALSE

UniqueViolation(rows, g) == \E r \in rows : r.groupId = g

\* ctx.database.get('phimg_config', { groupId })
DbGet(rows, g) == {r \in rows : r.groupId = g}

\* const [groupConfig] = ...: the first row, in id order
FirstRow(rows) == CHOOSE r \in rows : \A q \in rows : r.id <= q.id

\* the fields of a row the handler reads
LocalOf(row) ==
    [enabled |-> row.enabled, useGlobalTags |-> row.useGlobalTags,
     customTags |-> row.customTags]

\* Defaults with the two flags exchanged.
DefaultConfigSwapped(cfg) ==
    [enabled |-> cfg.useGlobalTagsByDefault,
     useGlobalTags |-> cfg.enabledByDefault,
     customTags |-> <<>>]

\* defaultConfig of getGroupConfig
DefaultConfig(cfg) ==
    [enabled |-> cfg.enabledByDefault,
     useGlobalTags |-> cfg.useGlobalTagsByDefault,
     customTags |-> <<>>]

\* ctx.database.create('phimg_config', defaultConfig), id auto-assigned
NewRow(id, g, local) ==
    [id |-> id, groupId |-> g, enabled |-> local.enabled,
     useGlobalTags |-> local.useGlobalTags, customTags |-> local.customTags]

\* A set that loses its write.
DbSetLost(rows, g, data) == rows

\* A set that writes the whole row: the fields it is not given go back to
\* an empty customTags and the flags true.
DbSetAll(rows, g, data) ==
    {IF r.groupId = g
     THEN [f \in DOMAIN r |->
             IF f \in DOMAIN data THEN data[f]
             ELSE IF f = "customTags" THEN <<>>
             ELSE IF f \in {"enabled", "useGlobalTags"} THEN TRUE
             ELSE r[f]]
     ELSE r : r \in rows}

\* ctx.database.set('phimg_config', { groupId }, data): data is a partial
\* row; the fields it names are overwritten in every row of the group.
DbSet(rows, g, data) ==
    {IF r.groupId = g
     THEN [f \in DOMAIN r |-> IF f \in DOMAIN data THEN data[f] ELSE r[f]]
     ELSE r : r \in rows}

NoData == [f \in {} |-> FALSE]

\* the customTags stored for group g (none stored: the empty list)
StoredTags(rows, g) ==
    IF DbGet(rows, g) = {} THEN <<>> ELSE FirstRow(DbGet(rows, g)).customTags

\* ------------------------------------------------------- the handler
\* What an invocation returns: the message it is (kind) and the values
\* rendered into it.
Reply(kind) ==
    [kind |-> kind, flags |-> <<>>, text |-> <<>>, url |-> <<>>,
     id |-> 0, score |-> 0]
NoReply == Reply("")

NoSelection == [url |-> <<>>, score |-> 0, id |-> 0, tags |-> <<>>]
NoQuery == <<>>
NoLocal == [enabled |-> FALSE, useGlobalTags |-> FALSE, customTags |-> <<>>]
NoArgs == [options |-> [flags |-> {}, text |-> NoData], tags |-> <<>>,
           user |-> <<>>]
NoBoard == [kind |-> "", status |-> 0, total |-> 0, message |-> <<>>]
NoSet == [groupId |-> NoGuild, added |-> <<>>, before |-> <<>>,
          undone |-> FALSE]

\* user?.authority ?? 0
Authority(user) == IF user = <<>> THEN 0 ELSE user[1]

\* A threshold one level too low.
IsAdminFromOne(user) == Authority(user) >= AdminAuthority - 1

\* the negation of (user?.authority ?? 0) < 2
IsAdmin(user) == Authority(user) >= AdminAuthority

Keys(options) == options.flags \cup DOMAIN options.text
Has(options, f) == f \in options.flags
\* options.add, options.rm: undefined (falsy, like '') when not supplied
TextOf(options, f) ==
    IF f \in DOMAIN options.text THEN options.text[f] ELSE <<>>

\* !tags && Object.keys(options).length === 0
HelpGuard(options, tags) == tags = <<>> /\ Keys(options) = {}

\* options.status
StatusGuard(options) == Has(options, "status")

\* options.on || options.off
EnableGuard(options) == Has(options, "on") \/ Has(options, "off")

\* A guard that lets a disabled group through.
DisabledGuardOff(gc) == FALSE

\* !groupConfig.enabled
DisabledGuard(gc) == ~gc.enabled

\* options.onglobal || options.offglobal
GlobalGuard(options) == Has(options, "onglobal") \/ Has(options, "offglobal")

\* options.add || options.rm
TagsGuard(options) ==
    TextOf(options, "add") # <<>> \/ TextOf(options, "rm") # <<>>

\* (options.add || options.rm).split(',').map(t => t.trim()).filter(t => t)
TagsToModify(options) ==
    ParseTags(IF TextOf(options, "add") # <<>> THEN TextOf(options, "add")
              ELSE TextOf(options, "rm"))

\* An add that appends without the Set.
AddTagsNoSet(customTags, tagsToModify) == customTags \o tagsToModify

\* [...new Set([...groupConfig.customTags, ...tagsToModify])]
AddTags(customTags, tagsToModify) == Dedup(customTags \o tagsToModify)

Lower(c) == IF c = "A" THEN "a" ELSE c
LowerTag(t) == [i \in 1..Len(t) |-> Lower(t[i])]
\* A removal that compares without regard to case.
RmTagsIgnoreCase(customTags, tagsToModify) ==
    LET Keep(t) == \A m \in Range(tagsToModify) : LowerTag(t) # LowerTag(m)
    IN SelectSeq(customTags, Keep)

\* groupConfig.customTags.filter(t => !tagsToModify.includes(t))
RmTags(customTags, tagsToModify) ==
    LET Keep(t) == t \notin Range(tagsToModify) IN SelectSeq(customTags, Keep)

\* A composition that puts the group's tags before the global ones.
ComposeGroupFirst(gc, cfg, tags) ==
    Dedup(gc.customTags
          \o (IF gc.useGlobalTags THEN cfg.defaultTags ELSE <<>>)
          \o ParseTags(tags))

\* userTags, globalTags, groupTags and allTags of the search path
Compose(gc, cfg, tags) ==
    LET userTags == IF tags # <<>> THEN ParseTags(tags) ELSE <<>>
        globalTags == IF gc.useGlobalTags THEN cfg.defaultTags ELSE <<>>
        groupTags == gc.customTags
    IN Dedup(globalTags \o groupTags \o userTags)

\* The synchronous run of the handler from the return of getGroupConfig to
\* its next await or return: the reply, the partial row handed to
\* updateGroupConfig (update), or the composed tags handed to searchImages
\* (search).
Handle(options, tags, user, gc, cfg) ==
    LET Ret(r) == [resp |-> r, update |-> FALSE, data |-> NoData,
                   search |-> FALSE, allTags |-> <<>>]
        Upd(r, d) == [resp |-> r, update |-> TRUE, data |-> d,
                      search |-> FALSE, allTags |-> <<>>]
    IN
    IF HelpGuard(options, tags) THEN Ret(Reply("Help"))
    ELSE IF StatusGuard(options) THEN
        Ret([Reply("Status") EXCEPT
                !.flags = <<gc.enabled, gc.useGlobalTags>>,
                !.text = JoinOrNone(gc.customTags)])
    ELSE IF EnableGuard(options) THEN
        IF ~IsAdmin(user) THEN Ret(Reply("DeniedSettings"))
        ELSE LET enabled == IF Has(options, "on") THEN TRUE ELSE FALSE
             IN Upd([Reply("EnabledSet") EXCEPT !.flags = <<enabled>>],
                    [f \in {"enabled"} |-> enabled])
    ELSE IF DisabledGuard(gc) THEN Ret(Reply("NotEnabled"))
    ELSE IF GlobalGuard(options) THEN
        IF ~IsAdmin(user) THEN Ret(Reply("DeniedGlobal"))
        ELSE LET useGlobalTags ==
                    IF Has(options, "onglobal") THEN TRUE ELSE FALSE
             IN Upd([Reply("GlobalSet") EXCEPT !.flags = <<useGlobalTags>>],
                    [f \in {"useGlobalTags"} |-> useGlobalTags])
    ELSE IF TagsGuard(options) THEN
        IF ~IsAdmin(user) THEN Ret(Reply("DeniedTags"))
        ELSE IF TextOf(options, "add") # <<>> THEN
            LET newTags == AddTags(gc.customTags, TagsToModify(options))
            IN Upd([Reply("Added") EXCEPT !.text = JoinOrNone(newTags)],
                   [f \in {"customTags"} |-> newTags])
        ELSE
            LET newTags == RmTags(gc.customTags, TagsToModify(options))
            IN Upd([Reply("Removed") EXCEPT !.text = JoinOrNone(newTags)],
                   [f \in {"customTags"} |-> newTags])
    ELSE IF Has(options, "tags") THEN
        Ret([Reply("TagList") EXCEPT !.text = JoinOrNone(gc.customTags)])
    ELSE IF tags = <<>> THEN Ret(Reply("Help"))
    ELSE [resp |-> NoReply, update |-> FALSE, data |-> NoData,
          search |-> TRUE, allTags |-> Compose(gc, cfg, tags)]

\* queryParams of searchImages
QueryParams(tags, apiKey) ==
    <<[name |-> "q", value |-> Join(tags, <<COMMA>>)]>>
    \o (IF apiKey # <<>> THEN <<[name |-> "key", value |-> apiKey]>> ELSE <<>>)
    \o <<[name |-> "sf", value |-> <<"score">>],
         [name |-> "sd", value |-> <<"desc">>],
         [name |-> "per_page", value |-> <<PerPage>>]>>

\* A selection that always hands back the large representation.
PickUrlLarge(image) == image.representations.large

\* file.endsWith('.webm') ? representations.medium : representations.large
PickUrl(image) ==
    IF EndsWith(image.representations.full, Webm)
    THEN image.representations.medium
    ELSE image.representations.large

\* selectRandomImage with randomInt(0, images.length) = index
SelectImage(list, index) ==
    LET selected_ == list[index + 1]
    IN [url |-> PickUrl(selected_), score |-> selected_.score,
        id |-> selected_.id, tags |-> selected_.tags]

\* A searchImages that rethrows every failure with its own message.
SearchResultVerbatim(reply) ==
    IF reply.kind = "ok" THEN
        IF reply.total = 0
        THEN [ok |-> FALSE, images |-> <<>>, message |-> NoResultsMsg]
        ELSE [ok |-> TRUE, images |-> reply.images, message |-> <<>>]
    ELSE [ok |-> FALSE, images |-> <<>>, message |-> reply.message]

\* What searchImages ends with: the images, or the message of the Error it
\* throws.
SearchResult(reply) ==
    IF reply.kind = "ok" THEN
        IF reply.total = 0
        THEN [ok |-> FALSE, images |-> <<>>, message |-> NoResultsMsg]
        ELSE [ok |-> TRUE, images |-> reply.images, message |-> <<>>]
    ELSE IF reply.kind = "http" /\ reply.status = 404
        THEN [ok |-> FALSE, images |-> <<>>, message |-> NoResultsMsg]
        ELSE [ok |-> FALSE, images |-> <<>>, message |-> reply.message]

\* the handler's reply after selectRandomImage
Render(sel, tags) ==
    IF EndsWith(sel.url, Webm)
    THEN [Reply("Video") EXCEPT !.url = sel.url]
    ELSE [Reply("Image") EXCEPT !.url = sel.url, !.id = sel.id,
             !.score = sel.score, !.text = Join(tags, <<COMMA, SPACE>>)]

\* the enabled flag stored for group g
StoredEnabled(rows, g) == \A r \in DbGet(rows, g) : r.enabled

\* A handler that reads the group's row again when it runs on.
ConfigStored(p) ==
    IF DbGet(db, groupId[p]) # {}
    THEN LocalOf(FirstRow(DbGet(db, groupId[p])))
    ELSE groupConfig[p]

\* const groupConfig = await getGroupConfig(groupId): the handler keeps
\* working with the configuration it read on entry.
ConfigRead(p) == groupConfig[p]

\* ------------------------------------------------------------ actions
Init ==
    /\ config \in Configs
    /\ db = {}
    /\ nextId = 1
    /\ pc = [p \in Procs |-> "idle"]
    /\ groupId = [p \in Procs |-> NoGuild]
    /\ groupConfig = [p \in Procs |-> NoLocal]
    /\ allTags = [p \in Procs |-> <<>>]
    /\ http = [p \in Procs |-> NoQuery]
    /\ sent = [p \in Procs |-> 0]
    /\ images = [p \in Procs |-> <<>>]
    /\ selected = [p \in Procs |-> NoSelection]
    /\ resp = [p \in Procs |-> NoReply]
    /\ args = [p \in Procs |-> NoArgs]
    /\ lastSet = NoSet
    /\ invocations = 0
    /\ board = [p \in Procs |-> NoBoard]
    /\ overtaken = [p \in Procs |-> FALSE]

\* The handler is entered outside a group conversation and returns before it
\* reads its other arguments: if (!session?.guildId) return ...
StartNoGuild(p) ==
    /\ pc[p] = "idle"
    /\ invocations < MaxInvocations
    /\ invocations' = invocations + 1
    /\ pc' = [pc EXCEPT ![p] = "done"]
    /\ resp' = [resp EXCEPT ![p] = Reply("GroupOnly")]
    /\ UNCHANGED <<config, db, nextId, groupId, groupConfig, allTags, http,
                   sent, images, selected, args, lastSet, board, overtaken>>

\* The handler is entered in group g with arguments req, and
\* getGroupConfig's database.get is answered: with the stored row, or with
\* nothing (create comes next).
Start(p, g, req) ==
    /\ pc[p] = "idle"
    /\ invocations < MaxInvocations
    /\ invocations' = invocations + 1
    /\ groupId' = [groupId EXCEPT ![p] = g]
    /\ args' = [args EXCEPT ![p] = req]
    /\ IF DbGet(db, g) # {}
       THEN /\ groupConfig' =
                 [groupConfig EXCEPT ![p] = LocalOf(FirstRow(DbGet(db, g)))]
            /\ pc' = [pc EXCEPT ![p] = "ready"]
       ELSE /\ pc' = [pc EXCEPT ![p] = "create"]
            /\ UNCHANGED groupConfig
    /\ UNCHANGED <<config, db, nextId, allTags, http, sent, images, selected,
                   resp, lastSet, board, overtaken>>

\* getGroupConfig's database.create is answered: the row is stored and the
\* defaults are returned, or the store rejects the row and the error leaves
\* the handler (nothing catches it).
Create(p) ==
    /\ pc[p] = "create"
    /\ IF UniqueViolation(db, groupId[p])
       THEN /\ pc' = [pc EXCEPT ![p] = "failed"]
            /\ resp' = [resp EXCEPT ![p] = Reply("Thrown")]
            /\ UNCHANGED <<db, nextId, groupConfig>>
       ELSE /\ db' = db \cup {NewRow(nextId, groupId[p], DefaultConfig(config))}
            /\ nextId' = nextId + 1
            /\ groupConfig' = [groupConfig EXCEPT ![p] = DefaultConfig(config)]
            /\ pc' = [pc EXCEPT ![p] = "ready"]
            /\ UNCHANGED resp
    /\ UNCHANGED <<config, groupId, allTags, http, sent, images, selected,
                   args, invocations, lastSet, board, overtaken>>

\* The handler runs on from getGroupConfig's return: to its reply, to the
\* row update it awaits before replying, or to the GET it issues.
Dispatch(p) ==
    /\ pc[p] = "ready"
    /\ LET h == Handle(args[p].options, args[p].tags, args[p].user,
                       ConfigRead(p), config)
       IN /\ db' = IF h.update THEN DbSet(db, groupId[p], h.data) ELSE db
          /\ lastSet' =
                IF ~h.update THEN lastSet
                ELSE IF h.resp.kind = "Added"
                THEN [groupId |-> groupId[p],
                      added |-> TextOf(args[p].options, "add"),
                      before |-> StoredTags(db, groupId[p]),
                      undone |-> FALSE]
                ELSE IF /\ h.resp.kind = "Removed"
                        /\ lastSet.groupId = groupId[p]
                        /\ lastSet.added = TextOf(args[p].options, "rm")
                        /\ ~lastSet.undone
                THEN [lastSet EXCEPT !.undone = TRUE]
                ELSE NoSet
          /\ IF h.search
             THEN /\ pc' = [pc EXCEPT ![p] = "search"]
                  /\ allTags' = [allTags EXCEPT ![p] = h.allTags]
                  /\ http' = [http EXCEPT
                                ![p] = QueryParams(h.allTags, config.apiKey)]
                  /\ sent' = [sent EXCEPT ![p] = @ + 1]
                  /\ UNCHANGED resp
             ELSE /\ pc' = [pc EXCEPT ![p] = "done"]
                  /\ resp' = [resp EXCEPT ![p] = h.resp]
                  /\ UNCHANGED <<allTags, http, sent>>
    /\ overtaken' = [overtaken EXCEPT
                        ![p] = /\ groupConfig[p].enabled
                               /\ ~StoredEnabled(db, groupId[p])]
    /\ UNCHANGED <<config, nextId, groupId, groupConfig, images, selected,
                   args, invocations, board>>

\* axios.get is answered; searchImages returns or throws, and the handler
\* selects, renders and replies, or replies with the error's message.
SearchReturn(p, reply, index) ==
    /\ pc[p] = "search"
    /\ LET r == SearchResult(reply)
       IN IF r.ok
          THEN /\ index \in 0..(Len(r.images) - 1)
               /\ images' = [images EXCEPT ![p] = r.images]
               /\ selected' = [selected EXCEPT ![p] = SelectImage(r.images, index)]
               /\ resp' = [resp EXCEPT
                             ![p] = Render(SelectImage(r.images, index), allTags[p])]
          ELSE /\ index = 0
               /\ resp' = [resp EXCEPT
                             ![p] = [Reply("Error") EXCEPT !.text = r.message]]
               /\ UNCHANGED <<images, selected>>
    /\ board' = [board EXCEPT
                    ![p] = [kind |-> reply.kind, status |-> reply.status,
                            total |-> reply.total, message |-> reply.message]]
    /\ pc' = [pc EXCEPT ![p] = "done"]
    /\ UNCHANGED <<config, db, nextId, groupId, groupConfig, allTags, http,
                   sent, args, lastSet, invocations, overtaken>>

\* The invocation is over; its slot takes the next one.
Finish(p) ==
    /\ pc[p] \in {"done", "failed"}
    /\ pc' = [pc EXCEPT ![p] = "idle"]
    /\ groupId' = [groupId EXCEPT ![p] = NoGuild]
    /\ groupConfig' = [groupConfig EXCEPT ![p] = NoLocal]
    /\ allTags' = [allTags EXCEPT ![p] = <<>>]
    /\ http' = [http EXCEPT ![p] = NoQuery]
    /\ sent' = [sent EXCEPT ![p] = 0]
    /\ images' = [images EXCEPT ![p] = <<>>]
    /\ selected' = [selected EXCEPT ![p] = NoSelection]
    /\ resp' = [resp EXCEPT ![p] = NoReply]
    /\ args' = [args EXCEPT ![p] = NoArgs]
    /\ board' = [board EXCEPT ![p] = NoBoard]
    /\ overtaken' = [overtaken EXCEPT ![p] = FALSE]
    /\ UNCHANGED <<config, db, nextId, invocations, lastSet>>

\* An idle slot takes an invocation in some group with arguments of reqs.
Enter(p, reqs) ==
    /\ pc[p] = "idle"
    /\ \E g \in Guilds, req \in reqs : Start(p, g, req)

\* The board, or the network, answers the GET of a searching invocation.
Answer(p, lists) ==
    /\ pc[p] = "search"
    /\ \E reply \in BoardReplies(lists), index \in 0..(MaxImages - 1) :
          SearchReturn(p, reply, index)

\* Invocations overlap: any slot may take any step.
Next ==
    \E p \in Procs :
        \/ StartNoGuild(p)
        \/ Enter(p, ConcurrentRequests)
        \/ Create(p)
        \/ Dispatch(p)
        \/ Answer(p, {<<Image1>>, <<Image2>>})
        \/ Finish(p)

Spec == Init /\ [][Next]_vars

\* One invocation at a time, with any arguments.
NextSeq ==
    \/ StartNoGuild(1)
    \/ Enter(1, Requests)
    \/ Create(1)
    \/ Dispatch(1)
    \/ Answer(1, ImageLists)
    \/ Finish(1)

SpecSeq == Init /\ [][NextSeq]_vars

\* ------------------------------------------------------------- claims
\* the administrative options, supplied with whatever value
AdminFlags == {"on", "off", "onglobal", "offglobal"}
AdminOption(options) ==
    options.flags \cap AdminFlags # {} \/ DOMAIN options.text # {}
\* authority 0, 1 or absent
BelowAdminUsers == {<<>>, <<0>>, <<1>>}
DeniedKinds == {"DeniedSettings", "DeniedGlobal", "DeniedTags"}
\* slot p leaves the dispatch: it replies, or issues its GET
Dispatched(p) == pc[p] = "ready" /\ pc'[p] # "ready"
\* the arguments of the invocation whose step this is
ArgsOf(p) == IF pc[p] = "idle" THEN args'[p] ELSE args[p]

\* C1: a step of an invocation that carries on, off, onglobal, offglobal,
\* add or rm and whose caller's authority is 0, 1 or absent leaves every
\* stored row as it is.
C1_BelowAdminKeepsRows ==
    [][\A p \in Procs :
          (/\ pc'[p] # pc[p]
           /\ ArgsOf(p).user \in BelowAdminUsers
           /\ AdminOption(ArgsOf(p).options))
          => \A r \in db : r \in db']_vars

\* An invocation of a caller below the threshold with an administrative
\* option has replied with a refusal, and the group's row is stored.
C1_Witness ==
    \E p \in Procs :
        /\ pc[p] = "done"
        /\ args[p].user \in BelowAdminUsers
        /\ AdminOption(args[p].options)
        /\ resp[p].kind \in DeniedKinds
        /\ \E r \in db : r.groupId = groupId[p] /\ r.customTags # <<>>

\* C2 as claimed: in a group, an invocation that carries an administrative
\* option and whose caller's authority is 0, 1 or absent replies
\* PermissionDenied, whatever the enabled flag and the other options.
C2_AlwaysDenied ==
    [][\A p \in Procs :
          (/\ Dispatched(p)
           /\ args[p].user \in BelowAdminUsers
           /\ AdminOption(args[p].options))
          => pc'[p] = "done" /\ resp'[p].kind \in DeniedKinds]_vars

\* C2 as amended: such an invocation replies with the status summary when
\* status accompanies it; else PermissionDenied for on/off; else 'not
\* enabled' when the configuration it read is disabled; else
\* PermissionDenied for onglobal/offglobal and for an add or rm with a
\* non-empty value.
C2_DeniedInOrder ==
    [][\A p \in Procs :
          (/\ Dispatched(p)
           /\ args[p].user \in BelowAdminUsers
           /\ AdminOption(args[p].options))
          => LET o == args[p].options
                 kind == resp'[p].kind
             IN IF "status" \in o.flags THEN pc'[p] = "done" /\ kind = "Status"
                ELSE IF o.flags \cap {"on", "off"} # {}
                    THEN pc'[p] = "done" /\ kind = "DeniedSettings"
                ELSE IF ~groupConfig[p].enabled
                    THEN pc'[p] = "done" /\ kind = "NotEnabled"
                ELSE IF o.flags \cap {"onglobal", "offglobal"} # {}
                    THEN pc'[p] = "done" /\ kind = "DeniedGlobal"
                ELSE IF \E f \in DOMAIN o.text : o.text[f] # <<>>
                    THEN pc'[p] = "done" /\ kind = "DeniedTags"
                ELSE TRUE]_vars

\* A caller below the threshold asked for add or rm in an enabled group and
\* was refused.
C2_Witness ==
    \E p \in Procs :
        /\ pc[p] = "done"
        /\ args[p].user \in BelowAdminUsers
        /\ DOMAIN args[p].options.text # {}
        /\ groupConfig[p].enabled
        /\ resp[p].kind = "DeniedTags"

\* C3: the table never holds two rows of one groupId.
C3_OneRowPerGroup ==
    \A r1, r2 \in db : r1.groupId = r2.groupId => r1 = r2

\* Two invocations found no row of the same group, both went on to create,
\* and one row is stored.
C3_Witness ==
    \E p, q \in Procs :
        /\ p # q
        /\ pc[p] = "failed"
        /\ pc[q] \in {"ready", "search", "done"}
        /\ groupId[p] = groupId[q]
        /\ Cardinality(DbGet(db, groupId[p])) = 1

\* C4 as claimed: no invocation ends with the error of a rejected create.
C4_NoInvocationFails == \A p \in Procs : pc[p] # "failed"

\* the defaults as the configuration gives them
ExpectedDefaults ==
    [enabled |-> config.enabledByDefault,
     useGlobalTags |-> config.useGlobalTagsByDefault,
     customTags |-> <<>>]

\* C5: a get that found no row stores exactly one row, with the system
\* defaults and no custom tag, and returns those values; a get that finds
\* the row returns its values and stores nothing.
C5_LazyDefaults ==
    [][\A p \in Procs :
          /\ (pc[p] = "create" /\ pc'[p] # "create") =>
                /\ pc'[p] = "ready"
                /\ groupConfig'[p] = ExpectedDefaults
                /\ \E r \in db' :
                      /\ r \notin db
                      /\ db' = db \cup {r}
                      /\ r.groupId = groupId[p]
                      /\ LocalOf(r) = ExpectedDefaults
          /\ (pc[p] = "idle" /\ pc'[p] = "ready") =>
                /\ db' = db
                /\ \E r \in db :
                      /\ r.groupId = groupId'[p]
                      /\ groupConfig'[p].enabled = r.enabled
                      /\ groupConfig'[p].useGlobalTags = r.useGlobalTags
                      /\ groupConfig'[p].customTags = r.customTags]_vars

\* A later get returned the defaults the first get had stored.
C5_Witness ==
    \E p \in Procs :
        /\ pc[p] = "ready"
        /\ invocations >= 2
        /\ groupConfig[p] = ExpectedDefaults
        /\ Cardinality(db) = 1
        /\ \A r \in db : r.groupId = groupId[p] /\ r.customTags = <<>>

\* the tags a text names
TagsIn(text) == Range(ParseTags(text))

\* C6 as claimed: after an administrator's add of t and then, with no other
\* update in between, an administrator's rm of t, the stored customTags are
\* the list stored before the add.
C6_RoundTrip ==
    lastSet.undone => StoredTags(db, lastSet.groupId) = lastSet.before

\* C6 as amended: the same, for a t none of whose tags was in the list
\* before the add.
C6_RoundTripOfNewTags ==
    (lastSet.undone /\ TagsIn(lastSet.added) \cap Range(lastSet.before) = {})
    => StoredTags(db, lastSet.groupId) = lastSet.before

\* Tags that were not in a non-empty list have been added and removed again.
C6_Witness ==
    /\ lastSet.undone
    /\ lastSet.before # <<>>
    /\ TagsIn(lastSet.added) # {}
    /\ TagsIn(lastSet.added) \cap Range(lastSet.before) = {}

\* C7: while the enabled flag stored for its group is false, an invocation
\* with neither status nor on nor off, and with some option or some tags,
\* replies 'not enabled', leaves the table as it is and issues no GET.
C7_DisabledRejects ==
    [][\A p \in Procs :
          (/\ Dispatched(p)
           /\ ~StoredEnabled(db, groupId[p])
           /\ args[p].options.flags \cap {"status", "on", "off"} = {}
           /\ (Keys(args[p].options) # {} \/ args[p].tags # <<>>))
          => /\ pc'[p] = "done"
             /\ resp'[p].kind = "NotEnabled"
             /\ db' = db
             /\ sent' = sent
             /\ http' = http]_vars

\* A member's search with tags in a disabled group was answered 'not
\* enabled'.
C7_Witness ==
    \E p \in Procs :
        /\ pc[p] = "done"
        /\ resp[p].kind = "NotEnabled"
        /\ args[p].tags # <<>>
        /\ args[p].user \in BelowAdminUsers
        /\ ~StoredEnabled(db, groupId[p])
        /\ sent[p] = 0

\* The steps of the dispatch in the order claimed, after 'no group context'.
DispatchOrder ==
    <<"help", "status", "onoff", "disabled", "global", "addrm", "tags",
      "notags", "search">>
StepMatches(step, a, gc) ==
    CASE step = "help" -> a.tags = <<>> /\ Keys(a.options) = {}
      [] step = "status" -> "status" \in a.options.flags
      [] step = "onoff" -> a.options.flags \cap {"on", "off"} # {}
      [] step = "disabled" -> ~gc.enabled
      [] step = "global" -> a.options.flags \cap {"onglobal", "offglobal"} # {}
      [] step = "addrm" -> \E f \in DOMAIN a.options.text : a.options.text[f] # <<>>
      [] step = "tags" -> "tags" \in a.options.flags
      [] step = "notags" -> a.tags = <<>>
      [] step = "search" -> TRUE
FirstMatch(a, gc) ==
    DispatchOrder[CHOOSE i \in 1..Len(DispatchOrder) :
        /\ StepMatches(DispatchOrder[i], a, gc)
        /\ \A j \in 1..(i-1) : ~StepMatches(DispatchOrder[j], a, gc)]
RepliesOf(step) ==
    CASE step = "help" -> {"Help"}
      [] step = "status" -> {"Status"}
      [] step = "onoff" -> {"DeniedSettings", "EnabledSet"}
      [] step = "disabled" -> {"NotEnabled"}
      [] step = "global" -> {"DeniedGlobal", "GlobalSet"}
      [] step = "addrm" -> {"DeniedTags", "Added", "Removed"}
      [] step = "tags" -> {"TagList"}
      [] step = "notags" -> {"Help"}
      [] step = "search" -> {}
FieldsOf(step) ==
    CASE step = "onoff" -> {"enabled"}
      [] step = "global" -> {"useGlobalTags"}
      [] step = "addrm" -> {"customTags"}
      [] OTHER -> {}

\* The dispatch of invocation p obeys the order: it ends with a reply of the
\* first matching step, or goes on to the search when no earlier step
\* matches; only the matching step's field of the group's row changes, no
\* row is added or removed, and a GET is issued only by the search.
DispatchInOrder(p) ==
    LET step == FirstMatch(args[p], groupConfig[p])
    IN /\ IF step = "search"
          THEN pc'[p] = "search" /\ sent'[p] = sent[p] + 1
          ELSE /\ pc'[p] = "done"
               /\ resp'[p].kind \in RepliesOf(step)
               /\ sent' = sent
       /\ \A r \in db : \E r2 \in db' :
             /\ r2.id = r.id
             /\ \A f \in DOMAIN r : r2[f] # r[f] => f \in FieldsOf(step)
       /\ Cardinality(db') = Cardinality(db)

\* The replies with which a search ends.
SearchReplies == {"Video", "Image", "Error"}

\* C8: every invocation ends with the response of the first matching step
\* in the order no group context, help, status, on/off, group disabled,
\* onglobal/offglobal, add/rm, tags, no tags (help), search, and nothing
\* of a later step happens once an earlier one has matched: outside a
\* group the reply is 'group only' and nothing is touched, in a group the
\* dispatch obeys the order, a search ends with the search's reply, and no
\* invocation ends without a reply.
C8_EveryInvocationAnswers ==
    [][\A p \in Procs :
          /\ pc'[p] # "failed"
          /\ (pc[p] = "idle" /\ pc'[p] = "done") =>
                resp'[p].kind = "GroupOnly" /\ db' = db /\ sent' = sent
          /\ Dispatched(p) => DispatchInOrder(p)
          /\ (pc[p] = "search" /\ pc'[p] = "done") =>
                /\ resp'[p].kind \in SearchReplies
                /\ db' = db /\ sent' = sent]_vars

\* ---------------------------------------------------------------------
\* Tag composition over every short user text
\* ---------------------------------------------------------------------

\* every text of at most MaxLen characters
AllTexts == UNION {[1..n -> Chars] : n \in 0..MaxLen}
ComposeDefaults == {<<>>, <<Tag("a")>>, <<Tag("a"), Tag("b")>>}
ComposeCustoms == {<<>>, <<Tag("A")>>, <<Tag("b"), Tag("a")>>}

\* An invocation by a member in an enabled group g1 has read the group's
\* row and holds a tags argument; nothing else is in flight.
InitCompose ==
    /\ config \in [apiKey : {<<>>}, defaultTags : ComposeDefaults,
                   enabledByDefault : {TRUE}, useGlobalTagsByDefault : {TRUE}]
    /\ \E local \in [enabled : {TRUE}, useGlobalTags : BOOLEAN,
                     customTags : ComposeCustoms] :
          /\ db = {NewRow(1, "g1", local)}
          /\ groupConfig = [p \in Procs |-> IF p = 1 THEN local ELSE NoLocal]
    /\ nextId = 2
    /\ pc = [p \in Procs |-> IF p = 1 THEN "ready" ELSE "idle"]
    /\ groupId = [p \in Procs |-> IF p = 1 THEN "g1" ELSE NoGuild]
    /\ allTags = [p \in Procs |-> <<>>]
    /\ http = [p \in Procs |-> NoQuery]
    /\ sent = [p \in Procs |-> 0]
    /\ images = [p \in Procs |-> <<>>]
    /\ selected = [p \in Procs |-> NoSelection]
    /\ resp = [p \in Procs |-> NoReply]
    /\ \E text \in AllTexts \ {<<>>} :
          args = [p \in Procs |->
                    IF p = 1 THEN [NoArgs EXCEPT !.tags = text] ELSE NoArgs]
    /\ lastSet = NoSet
    /\ invocations = 1
    /\ board = [p \in Procs |-> NoBoard]
    /\ overtaken = [p \in Procs |-> FALSE]

NextCompose == Dispatch(1)

SpecCompose == InitCompose /\ [][NextCompose]_vars

\* The user tags of a text, read off the text: the pieces between
\* consecutive commas, each cut down to the span from its first to its last
\* character that is no space, the empty ones left out.
Cuts(s) == {0, Len(s) + 1} \cup {i \in 1..Len(s) : s[i] = COMMA}
Min(S) == CHOOSE x \in S : \A y \in S : x <= y
Max(S) == CHOOSE x \in S : \A y \in S : x >= y
PieceFrom(s, c) == SubSeq(s, c + 1, Min({d \in Cuts(s) : d > c}) - 1)
Core(t) ==
    LET solid == {i \in 1..Len(t) : t[i] # SPACE}
    IN IF solid = {} THEN <<>> ELSE SubSeq(t, Min(solid), Max(solid))
ExpectedUserTags(s) ==
    LET starts == {c \in Cuts(s) \ {Len(s) + 1} : Core(PieceFrom(s, c)) # <<>>}
        nth(k) == CHOOSE c \in starts :
                      Cardinality({d \in starts : d < c}) = k - 1
    IN [k \in 1..Cardinality(starts) |-> Core(PieceFrom(s, nth(k)))]
FirstIndex(xs, x) == Min({i \in 1..Len(xs) : xs[i] = x})
SourceTags(p) ==
    (IF groupConfig[p].useGlobalTags THEN config.defaultTags ELSE <<>>)
        \o groupConfig[p].customTags \o ExpectedUserTags(args[p].tags)

\* C9: the tags composed for a search hold no tag twice, hold exactly the
\* tags of the global defaults (when useGlobalTags is true), the group's
\* customTags and the user tags (comma pieces, trimmed, empty ones
\* dropped), in the order of their first occurrence in that concatenation;
\* tags are the same only when equal character for character, and
\* composing the same inputs once more gives the same sequence.
C9_ComposedTags ==
    \A p \in Procs :
        pc[p] = "search" =>
            LET q == allTags[p]
                src == SourceTags(p)
            IN /\ \A i, j \in 1..Len(q) : i # j => q[i] # q[j]
               /\ Range(q) = Range(src)
               /\ \A i, j \in 1..Len(q) :
                     i < j => FirstIndex(src, q[i]) < FirstIndex(src, q[j])
               /\ q = Compose(groupConfig[p], config, args[p].tags)

\* Global [a], custom [A], user text "A,b": the user's A is dropped as a
\* duplicate of the custom tag, but not the custom A as one of the global a.
C9_Witness ==
    /\ pc[1] = "search"
    /\ groupConfig[1].useGlobalTags
    /\ config.defaultTags = <<Tag("a")>>
    /\ groupConfig[1].customTags = <<Tag("A")>>
    /\ args[1].tags = <<"A", COMMA, "b">>
    /\ allTags[1] = <<Tag("a"), Tag("A"), Tag("b")>>

\* the name ends in .webm
IsWebm(name) ==
    LET n == Len(name)
    IN n >= 5 /\ SubSeq(name, n - 4, n) = <<".", "w", "e", "b", "m">>

\* C10: the selection made from a non-empty list of candidates carries the
\* id and score of one element of the list, and the url is that element's
\* medium representation when its full representation ends in .webm and
\* its large representation otherwise.
C10_SelectedFromList ==
    \A p \in Procs :
        (pc[p] = "done" /\ images[p] # <<>>) =>
            \E i \in 1..Len(images[p]) :
                LET e == images[p][i]
                IN /\ selected[p].id = e.id
                   /\ selected[p].score = e.score
                   /\ selected[p].url =
                         IF IsWebm(e.representations.full)
                         THEN e.representations.medium
                         ELSE e.representations.large

\* The second of two candidates was selected; its full representation is a
\* .webm, the first one's only contains .webm.
C10_Witness ==
    \E p \in Procs :
        /\ pc[p] = "done"
        /\ images[p] = <<Image3, Image1>>
        /\ selected[p].id = Image1.id
        /\ selected[p].url = Image1.representations.medium

\* C11: the tags field of the selection made for a search is the composed
\* tag sequence that was sent in the query.
C11_SelectionCarriesQueryTags ==
    \A p \in Procs :
        (pc[p] = "done" /\ selected[p] # NoSelection) =>
            selected[p].tags = allTags[p]

\* C12: a search answered with total = 0 and a search answered with HTTP
\* 404 both end with the 'no matching image' message as the reply; a search
\* that fails in any other way ends with that failure's own message as the
\* reply; no search ends with an error thrown out of the handler.
C12_SearchFailuresAnswered ==
    [][\A p \in Procs :
          pc[p] = "search" =>
             /\ pc'[p] \in {"search", "done"}
             /\ pc'[p] = "done" =>
                   LET b == board'[p]
                   IN /\ resp'[p].kind \in SearchReplies
                      /\ ((b.kind = "ok" /\ b.total = 0) \/ b.status = 404) =>
                            /\ resp'[p].kind = "Error"
                            /\ resp'[p].text = NoResultsMsg
                      /\ (b.kind # "ok" /\ b.status # 404) =>
                            /\ resp'[p].kind = "Error"
                            /\ resp'[p].text = b.message]_vars

\* A search was answered 404 and replied 'no matching image'; another
\* failure would have replied its own message.
C12_Witness ==
    \E p \in Procs :
        /\ pc[p] = "done"
        /\ sent[p] = 1
        /\ board[p].status = 404
        /\ resp[p].kind = "Error"
        /\ resp[p].text = NoResultsMsg
        /\ resp[p].text # board[p].message

\* the replies the handler returns as a response
ResponseKinds ==
    {"GroupOnly", "Help", "Status", "DeniedSettings", "EnabledSet",
     "NotEnabled", "DeniedGlobal", "GlobalSet", "DeniedTags", "Added",
     "Removed", "TagList", "Video", "Image", "Error"}

\* C13: every invocation that has ended has ended by returning a response
\* (the refusal, 'not enabled', 'no matching image', the failure's message
\* or 'group only' among them), never with an error handed to the host.
C13_EveryEndIsAResponse ==
    \A p \in Procs :
        /\ pc[p] \in {"done", "failed"} => resp[p].kind \in ResponseKinds
        /\ pc[p] \in {"idle", "create", "ready", "search"} =>
              resp[p] = NoReply

\* the steps of the dispatch that write to the group's row
MutatingSteps == {"onoff", "global", "addrm"}

\* C14: no step removes a stored row or changes its id or groupId; the
\* enabled, useGlobalTags and customTags of a stored row change only in
\* the dispatch of an invocation for that row's group whose first matching
\* step is on/off, onglobal/offglobal or add/rm and whose caller has
\* authority 2 or more; help, status, tags and search invocations, and
\* the creation of another row, change no stored row.
C14_OnlyAdminOptionsChangeRows ==
    [][\A r \in db :
          \/ r \in db'
          \/ /\ \E r2 \in db' : r2.id = r.id /\ r2.groupId = r.groupId
             /\ \E p \in Procs :
                   /\ Dispatched(p)
                   /\ groupId[p] = r.groupId
                   /\ FirstMatch(args[p], groupConfig[p]) \in MutatingSteps
                   /\ args[p].user # <<>>
                   /\ args[p].user[1] >= AdminAuthority]_vars

\* An administrator's add has changed a row; a member's status, tags
\* listing or search has then ended with the row as the member read it.
C14_Witness ==
    \E p \in Procs :
        /\ pc[p] = "done"
        /\ resp[p].kind \in {"Status", "TagList", "Image", "Video"}
        /\ args[p].user \in BelowAdminUsers
        /\ \E r \in db : r.groupId = groupId[p] /\ r.customTags # <<>>
                         /\ r.customTags = groupConfig[p].customTags

\* the row stored for group g
RowOf(rows, g) == FirstRow(DbGet(rows, g))

\* the invocation is a search: tags and no option
IsSearch(a) == a.tags # <<>> /\ Keys(a.options) = {}

\* C15: when an administrator's on completes, the group's stored enabled
\* flag is true; the flag stays true until an off completes; and a search
\* with tags by any user that starts while it is true passes the enabled
\* guard and issues one query, and no second one, whose q parameter is the
\* composed tags: the global default tags (when the group's useGlobalTags
\* is true), the group's customTags and the user's tags, without
\* duplicates.
C15_SearchAfterOn ==
    [][\A p \in Procs :
          /\ (Dispatched(p) /\ resp'[p].kind = "EnabledSet"
                /\ "on" \in args[p].options.flags) =>
                /\ DbGet(db', groupId[p]) # {}
                /\ StoredEnabled(db', groupId[p])
          /\ \A r \in db :
                (r.enabled /\ \E r2 \in db' : r2.id = r.id /\ ~r2.enabled) =>
                    \E q \in Procs :
                        /\ Dispatched(q)
                        /\ resp'[q].kind = "EnabledSet"
                        /\ "on" \notin args[q].options.flags
          /\ (pc[p] = "idle" /\ pc'[p] # "idle" /\ IsSearch(args'[p])
                /\ DbGet(db, groupId'[p]) # {}
                /\ StoredEnabled(db, groupId'[p])) =>
                pc'[p] = "ready" /\ groupConfig'[p].enabled
          /\ (Dispatched(p) /\ IsSearch(args[p]) /\ groupConfig[p].enabled) =>
                /\ pc'[p] = "search"
                /\ sent'[p] = 1
                /\ allTags'[p] = Dedup(SourceTags(p))
                /\ http'[p][1] =
                      [name |-> "q", value |-> Join(allTags'[p], <<COMMA>>)]
          /\ pc[p] = "search" => sent'[p] = sent[p]]_vars

\* In a group that is disabled by default an administrator's on has
\* completed and a member's search has issued its one query, the global
\* default tag ahead of the user's.
C15_Witness ==
    \E p \in Procs :
        /\ ~config.enabledByDefault
        /\ pc[p] = "search"
        /\ sent[p] = 1
        /\ args[p].user \in BelowAdminUsers
        /\ StoredEnabled(db, groupId[p])
        /\ RowOf(db, groupId[p]).useGlobalTags
        /\ config.defaultTags # <<>>
        /\ Len(allTags[p]) > Len(config.defaultTags)
        /\ SubSeq(allTags[p], 1, Len(config.defaultTags)) = config.defaultTags

\* the invocation is an administrator's add or rm of some tags
Tagging(a) ==
    /\ a.user # <<>> /\ a.user[1] >= AdminAuthority
    /\ a.options.flags = {}
    /\ \E f \in DOMAIN a.options.text : ParseTags(a.options.text[f]) # <<>>

\* two administrators' add or rm invocations for one group are in flight
BothTagging ==
    /\ \A p \in Procs : pc[p] # "idle" /\ Tagging(args[p])
    /\ \A p, q \in Procs : groupId[p] = groupId[q]

\* the list an add or rm computes from the customTags it read
ComputedTags(a, read) ==
    IF TextOf(a.options, "add") # <<>>
    THEN Dedup(read \o ParseTags(TextOf(a.options, "add")))
    ELSE SelectSeq(read,
            LAMBDA t : t \notin TagsIn(TextOf(a.options, "rm")))

\* each add or rm that persists in a group that is enabled as it read it
\* leaves as the stored customTags the list it computed from the
\* customTags it read on entry
LastWriterWins ==
    \A p \in Procs :
        (Dispatched(p) /\ groupConfig[p].enabled) =>
            /\ resp'[p].kind \in {"Added", "Removed"}
            /\ StoredTags(db', groupId[p]) =
                  ComputedTags(args[p], groupConfig[p].customTags)

\* C16: while two administrators' add or rm invocations for one group are
\* in flight, neither ends with an error, and each one that persists
\* leaves as the stored customTags the list it computed from the
\* customTags it read on entry, so that the stored list is that of the
\* invocation that persisted last.
C16_LastWriterWins ==
    [][/\ BothTagging' => \A p \in Procs : pc'[p] # "failed"
       /\ BothTagging => LastWriterWins]_vars

\* the same without the requirement that neither ends with an error
C16_WritesFromRead == [][BothTagging => LastWriterWins]_vars

\* the tag is what trimming leaves of it, and is not empty
Trimmed(t) == t # <<>> /\ t[1] # SPACE /\ t[Len(t)] # SPACE

WrittenField(r) ==
    CASE r.kind = "EnabledSet" -> "enabled"
      [] r.kind = "GlobalSet" -> "useGlobalTags"
      [] r.kind \in {"Added", "Removed"} -> "customTags"
      [] OTHER -> ""
Shows(r, row) ==
    CASE r.kind = "EnabledSet" -> r.flags = <<row.enabled>>
      [] r.kind = "GlobalSet" -> r.flags = <<row.useGlobalTags>>
      [] r.kind \in {"Added", "Removed"} -> r.text = JoinOrNone(row.customTags)
      [] OTHER -> TRUE

\* C18: the dispatch of on/off changes at most the enabled of its group's
\* row, that of onglobal/offglobal at most useGlobalTags, that of add/rm at
\* most customTags, and no other row; so when an administrator's mutation
\* of one field is persisted while the value another administrator's
\* completed mutation wrote to a different field of the same group is
\* stored, in whatever order the two read the row, the row then holds
\* both values.
C18_WritesOnlyItsField ==
    [][/\ \A p \in Procs :
             Dispatched(p) =>
                \A r \in db : \E r2 \in db' :
                   /\ r2.id = r.id
                   /\ \A f \in DOMAIN r :
                         r2[f] # r[f] =>
                            /\ r.groupId = groupId[p]
                            /\ f = WrittenField(resp'[p])
       /\ \A p, q \in Procs :
             (/\ pc[p] = "done" /\ Dispatched(q)
              /\ groupId[p] = groupId[q]
              /\ WrittenField(resp[p]) # ""
              /\ WrittenField(resp'[q]) # ""
              /\ WrittenField(resp[p]) # WrittenField(resp'[q])
              /\ Shows(resp[p], RowOf(db, groupId[p])))
             => /\ Shows(resp[p], RowOf(db', groupId[p]))
                /\ Shows(resp'[q], RowOf(db', groupId[q]))]_vars

\* An off and an add for one group have both completed, each having read
\* the row before the other wrote it: the row is disabled and holds the
\* added tag.
C18_Witness ==
    \E p, q \in Procs :
        /\ pc[p] = "done" /\ pc[q] = "done"
        /\ groupId[p] = groupId[q]
        /\ resp[p].kind = "EnabledSet" /\ resp[p].flags = <<FALSE>>
        /\ resp[q].kind = "Added"
        /\ groupConfig[p].customTags = <<>>
        /\ groupConfig[q].enabled
        /\ ~RowOf(db, groupId[p]).enabled
        /\ RowOf(db, groupId[p]).customTags # <<>>

\* C19: the dispatch of an invocation decides the enabled guard, the merge
\* of the global tags and the custom tags from the configuration the
\* invocation read on entry, whatever the row stored by then holds: its
\* first matching step, its search and the tags it sends, and the list an
\* add or rm writes are those of the configuration read.
C19_DecidesFromConfigRead ==
    [][\A p \in Procs :
          Dispatched(p) =>
             LET step == FirstMatch(args[p], groupConfig[p])
             IN /\ (step = "search") = (pc'[p] = "search")
                /\ step = "search" =>
                      /\ sent'[p] = sent[p] + 1
                      /\ allTags'[p] = Dedup(SourceTags(p))
                /\ step # "search" => resp'[p].kind \in RepliesOf(step)
                /\ resp'[p].kind \in {"Added", "Removed"} =>
                      StoredTags(db', groupId[p]) =
                         ComputedTags(args[p], groupConfig[p].customTags)
                /\ overtaken'[p] =
                      (groupConfig[p].enabled
                         /\ ~StoredEnabled(db, groupId[p]))]_vars

\* A search that read enabled = true has issued its query after an
\* administrator's off for the group had been persisted.
C19_Witness ==
    \E p \in Procs :
        /\ pc[p] = "search"
        /\ sent[p] = 1
        /\ overtaken[p]
        /\ groupConfig[p].enabled
        /\ ~StoredEnabled(db, groupId[p])
        /\ DbGet(db, groupId[p]) # {}
====
